---- MODULE Spec2Model ----
(***************************************************************************)
(* MANTIS generator (src/nasa/mantis_nasa_generator.py): the satellite     *)
(* prediction generator, the tag telemetry simulator, the dataset combiner *)
(* and the batch pipeline that runs them in sequence; and the query       *)
(* service (src/backend/mantis_backend.py) that loads the files it writes. *)
(*                                                                         *)
(* Reals are fixed-point integers.  Units:                                 *)
(*   latitude, longitude, distances        1e-4 degree                     *)
(*   chlorophyll_a                         1e-4 mg/m3                      *)
(*   temperatures                          1e-2 degree C                   *)
(*   ssh_anomaly                           1e-3 m                          *)
(*   plankton_density, bite force          1e-1                            *)
(*   env_impact, uniform/normal draws      1e-2                            *)
(*   sub-scores of the habitat index       1e-4                            *)
(*   habitat index before rounding, accuracy probability     1e-5          *)
(*   stored confidence (round(hsi, 4))     1e-4                            *)
(*   feeding_intensity, tag_confidence     1e-3                            *)
(* A random draw of the code is an input the action picks from a set.      *)
(***************************************************************************)
EXTENDS Integers, Sequences, FiniteSets, TLC

VARIABLES
    pc,              \* position of run_complete_pipeline
    yday,            \* datetime.now().timetuple().tm_yday of the run
    eonet_events,    \* result of fetch_nasa_eonet_events
    ocean_data,      \* list built by generate_nasa_enhanced_data
    satellite_data,  \* prediction table (DataFrame rows, in order)
    tagged_sharks,   \* list built by the first loop of generate_mantis_tag_data
    shark_idx,       \* index of the shark whose events are being generated
    n_events,        \* event count drawn for that shark
    event_num,       \* loop counter of the inner loop
    tag_data,        \* tag table (rows appended by the inner loop)
    pred_of,         \* per emitted row: index of the local `pred` it was built from
    combined_data,   \* combined table, or NoTable before it is produced
    analysis_results,\* result of analyze_performance, or NoTable
    files,           \* output files: in a single run the names written so far, in
                     \* SpecService the working directory, name -> rows written
    data_point,      \* one evaluation of the body of the sample loop
    probe,           \* one evaluation of a pure helper or one HTTP exchange: inputs, result
    backend,         \* module globals of the query service (src/backend/mantis_backend.py)
    drawn            \* history: the event counts np.random.randint(8, 16) returned in a call
                     \* of generate_mantis_tag_data on its own, one per shark

vars == <<pc, yday, eonet_events, ocean_data, satellite_data, tagged_sharks,
          shark_idx, n_events, event_num, tag_data, pred_of, combined_data,
          analysis_results, files, data_point, probe, backend, drawn>>

\* ------------------------------------------------------------------ bounds

\* range(150) in generate_nasa_enhanced_data, scaled down
NSamples == 2
\* n_sharks=12 in generate_mantis_tag_data, scaled down
NSharks == 1
\* np.random.randint(8, 16): event counts 8..15, scaled down to 1..MaxEvents
MaxEvents == 1
\* longest tag table handed to analyze_performance on its own
MaxTagRows == 2

\* n_sharks=12 in a call of generate_mantis_tag_data on its own, scaled down
NTagSharks == 2
\* np.random.randint(8, 16) in such a call: 8 scaled down
MinTagEvents == 1
\* np.random.randint(8, 16) in such a call: 15 scaled down
MaxTagEvents == 2

NoTable == "none"
NoProbe == [fn |-> "none"]

\* a table global of the query service: Python's None, or a DataFrame
None == [none |-> TRUE, rows |-> <<>>]

DataFrame(rows) == [none |-> FALSE, rows |-> rows]

\* src/backend/mantis_backend.py lines 18-21: the globals at import;
\* system_stats = {} is the empty set of entries
NotStarted == [satellite_data |-> None, tag_data |-> None, combined_data |-> None,
               system_stats |-> {}]

\* ------------------------------------------------------------ arithmetic

Abs(x) == IF x < 0 THEN -x ELSE x

Min(a, b) == IF a < b THEN a ELSE b

Max(a, b) == IF a > b THEN a ELSE b

\* np.clip with the lower bound forgotten
clip_upper_only(x, lo, hi) == IF x > hi THEN hi ELSE x

\* np.clip(x, lo, hi)
clip(x, lo, hi) == IF x < lo THEN lo ELSE IF x > hi THEN hi ELSE x

\* round(x, n) where x carries one decimal digit more than is kept:
\* Python rounds to nearest, ties to even
round1(x) ==
    LET q == x \div 10
        r == x % 10
    IN  IF r < 5 THEN q
        ELSE IF r > 5 THEN q + 1
        ELSE IF q % 2 = 0 THEN q ELSE q + 1

\* floor of the square root, by bisection on [lo, hi]
RECURSIVE SqrtBetween(_, _, _)
SqrtBetween(x, lo, hi) ==
    IF lo >= hi THEN lo
    ELSE LET mid == (lo + hi + 1) \div 2
         IN  IF mid * mid <= x THEN SqrtBetween(x, mid, hi)
             ELSE SqrtBetween(x, lo, mid - 1)

\* np.sqrt(dy**2 + dx**2), rounded down
dist(dy, dx) == SqrtBetween(dy * dy + dx * dx, 0, 46340)

\* piecewise-linear reading of a table <<x, y>> sorted by x; the error
\* against the exact function is below the Uniform(-0.02, 0.02) perturbation
RECURSIVE Interp(_, _, _)
Interp(tab, k, x) ==
    IF x <= tab[1][1] THEN tab[1][2]
    ELSE IF k >= Len(tab) THEN tab[Len(tab)][2]
    ELSE IF x <= tab[k + 1][1]
         THEN tab[k][2] + ((tab[k + 1][2] - tab[k][2]) * (x - tab[k][1]))
                              \div (tab[k + 1][1] - tab[k][1])
         ELSE Interp(tab, k + 1, x)

\* the decimal digits of n >= 0
RECURSIVE digits(_)
digits(n) == IF n < 10 THEN <<n>> ELSE Append(digits(n \div 10), n % 10)

\* zero_padded with the padding forgotten
zero_padded_bare(n, width) == digits(n)

\* f"{n:0<width>d}": the digits of n, zeros in front up to width characters
zero_padded(n, width) ==
    LET d == digits(n)
        pad == Max(0, width - Len(d))
    IN  [k \in 1..(pad + Len(d)) |-> IF k <= pad THEN 0 ELSE d[k - pad]]

\* ------------------------------------------------------ configuration

sydney_area == [lat_min |-> -345000, lat_max |-> -330000,
                lon_min |-> 1505000, lon_max |-> 1520000,
                center_lat |-> -338688, center_lon |-> 1512093]

shark_hotspots ==
    << [name |-> "Sydney Harbour", lat |-> -338688, lon |-> 1512093],
       [name |-> "Bondi Beach",    lat |-> -338915, lon |-> 1512767],
       [name |-> "Manly Beach",    lat |-> -337969, lon |-> 1512899],
       [name |-> "Cronulla Beach", lat |-> -340281, lon |-> 1511789],
       [name |-> "Coogee Beach",   lat |-> -339205, lon |-> 1512584] >>

prey_options == <<"small_fish", "plankton_bloom", "squid_cephalopods", "mixed_diet">>

\* temp_pref in 1e-2 C, size_range in 1e-1 m, aggression in 1e-2
shark_species ==
    [ GreatWhite   |-> [name |-> "Great White",   temp_pref |-> 2000, size_lo |-> 35, size_hi |-> 52, aggression |-> 90],
      TigerShark   |-> [name |-> "Tiger Shark",   temp_pref |-> 2250, size_lo |-> 30, size_hi |-> 45, aggression |-> 80],
      BullShark    |-> [name |-> "Bull Shark",    temp_pref |-> 2400, size_lo |-> 28, size_hi |-> 40, aggression |-> 85],
      Hammerhead   |-> [name |-> "Hammerhead",    temp_pref |-> 2100, size_lo |-> 32, size_hi |-> 45, aggression |-> 60],
      BronzeWhaler |-> [name |-> "Bronze Whaler", temp_pref |-> 1900, size_lo |-> 25, size_hi |-> 38, aggression |-> 40] ]

species_list == DOMAIN shark_species

\* ------------------------------------------------------ seasonal terms

\* days of the year the model runs on
YDays == {91, 308}

\* 1 + 0.3 * sin(2*pi*(yday/365)), 1e-3
seasonal_factor(d) == CASE d = 1 -> 1005 [] d = 91 -> 1300 [] d = 182 -> 1003
                        [] d = 274 -> 700 [] d = 308 -> 751 [] OTHER -> 1000

\* 20.5 + 4 * sin(2*pi*(yday - 30)/365), 1e-2
seasonal_temp(d) == CASE d = 1 -> 1859 [] d = 91 -> 2397 [] d = 182 -> 2250
                      [] d = 274 -> 1701 [] d = 308 -> 1651 [] OTHER -> 1852

\* ------------------------------------------------- habitat suitability

\* exp(-((temp - 20.5)**2) / (2 * 3.2**2)) at 15.0, 15.5, ..., 26.0
ThermalTable ==
    << <<1500, 2283>>, <<1550, 2950>>, <<1600, 3720>>, <<1650, 4578>>,
       <<1700, 5498>>, <<1750, 6444>>, <<1800, 7370>>, <<1850, 8226>>,
       <<1900, 8960>>, <<1950, 9523>>, <<2000, 9879>>, <<2050, 10000>>,
       <<2100, 9879>>, <<2150, 9523>>, <<2200, 8960>>, <<2250, 8226>>,
       <<2300, 7370>>, <<2350, 6444>>, <<2400, 5498>>, <<2450, 4578>>,
       <<2500, 3720>>, <<2550, 2950>>, <<2600, 2283>> >>

\* log(1 + chlor * 12) / log(37)
ProductivityTable ==
    << <<500, 1302>>, <<1000, 2184>>, <<2000, 3389>>, <<4000, 4868>>,
       <<7000, 6205>>, <<10000, 7103>>, <<15000, 8154>>, <<25000, 9510>>,
       <<30000, 10000>>, <<50000, 11385>>, <<75000, 12492>>, <<100000, 13281>> >>

\* 1 / (1 + exp(-6 * (min(plankton/35000, 1.0) - 0.4)))
PreyTable ==
    << <<8000, 942>>, <<50000, 1761>>, <<100000, 3350>>, <<140000, 5000>>,
       <<180000, 6650>>, <<220000, 7976>>, <<260000, 8867>>, <<300000, 9395>>,
       <<350000, 9734>> >>

\* calculate_nasa_hsi: noise is its np.random.uniform(-0.02, 0.02), 1e-5
calculate_nasa_hsi(temp, chlor, ssh_anomaly, plankton, dist_coast, env_impact, noise) ==
    LET thermal_score == Interp(ThermalTable, 1, temp)
        productivity_score == IF chlor > 0 THEN Interp(ProductivityTable, 1, chlor)
                              ELSE 1000
        frontal_score == IF Abs(ssh_anomaly) > 100
                         THEN Min(10000, (Abs(ssh_anomaly) * 10000) \div 300)
                         ELSE 4000
        prey_score == Interp(PreyTable, 1, plankton)
        coastal_score == IF 500 <= dist_coast /\ dist_coast <= 3000 THEN 10000
                         ELSE IF dist_coast < 500 THEN 7000
                         ELSE Max(3000, 10000 - ((dist_coast - 3000) * 10000) \div 4000)
        hsi == (30 * thermal_score + 35 * productivity_score + 20 * frontal_score
                + 10 * prey_score + 5 * coastal_score) \div 10
        hsi2 == (hsi * (100 + env_impact)) \div 100
    IN  clip(hsi2 + noise, 10000, 98000)

\* predict_prey_type with the first two branches in the other order
predict_prey_type_swapped(chlor, temp, plankton) ==
    IF 10000 <= chlor /\ chlor <= 30000 /\ temp > 1900 THEN "small_fish"
    ELSE IF plankton > 250000 /\ chlor > 25000 THEN "plankton_bloom"
    ELSE IF chlor < 10000 /\ temp < 1900 THEN "squid_cephalopods"
    ELSE "mixed_diet"

\* predict_prey_type
predict_prey_type(chlor, temp, plankton) ==
    IF plankton > 250000 /\ chlor > 25000 THEN "plankton_bloom"
    ELSE IF 10000 <= chlor /\ chlor <= 30000 /\ temp > 1900 THEN "small_fish"
    ELSE IF chlor < 10000 /\ temp < 1900 THEN "squid_cephalopods"
    ELSE "mixed_diet"

\* ------------------------------------------------------- external events

\* An EONET event as the loops read it: categories[0].title, and a list of
\* geometry entries.  cat_ok = FALSE: event.get('categories', [{}])[0] raises.
\* A geometry entry is a "point" (coordinates = [lon, lat, ...]), "short"
\* (fewer than two coordinates) or "bad" (reading or subtracting it raises).
Point(lon, lat) == [kind |-> "point", lon |-> lon, lat |-> lat]

ShortGeom == [kind |-> "short", lon |-> 0, lat |-> 0]

BadGeom == [kind |-> "bad", lon |-> 0, lat |-> 0]

Event(title, geometry) == [cat_ok |-> TRUE, title |-> title, geometry |-> geometry]

\* 'Storm' in event_type / 'Sea' in event_type, over the EONET category titles
HasStorm(title) == title \in {"Severe Storms", "Dust Storms at Sea"}

HasSea(title) == title \in {"Sea and Lake Ice", "Dust Storms at Sea"}

\* (lat - coords[1])**2 + (lon - coords[0])**2, compared squared
dist2(lat, lon, g) == (lat - g.lat) * (lat - g.lat) + (lon - g.lon) * (lon - g.lon)

\* inner loop of lines 126-135 for one event, from geometry k on; an
\* exception leaves the loop (except: continue) with what was accumulated
RECURSIVE impact_of_event(_, _, _, _, _)
impact_of_event(event, k, lat, lon, env_impact) ==
    IF k > Len(event.geometry) THEN env_impact
    ELSE LET g == event.geometry[k]
         IN  IF g.kind = "bad" THEN env_impact
             ELSE IF g.kind = "short" THEN impact_of_event(event, k + 1, lat, lon, env_impact)
             ELSE IF dist2(lat, lon, g) < 20000 * 20000
                  THEN IF ~event.cat_ok THEN env_impact
                       ELSE IF HasStorm(event.title)
                            THEN impact_of_event(event, k + 1, lat, lon, env_impact - 10)
                       ELSE IF HasSea(event.title)
                            THEN impact_of_event(event, k + 1, lat, lon, env_impact + 5)
                       ELSE impact_of_event(event, k + 1, lat, lon, env_impact)
                  ELSE impact_of_event(event, k + 1, lat, lon, env_impact)

\* loop of lines 123-137 over the events, from event e on
RECURSIVE environmental_impact(_, _, _, _, _)
environmental_impact(events, e, lat, lon, env_impact) ==
    IF e > Len(events) THEN env_impact
    ELSE environmental_impact(events, e + 1, lat, lon,
                              impact_of_event(events[e], 1, lat, lon, env_impact))

\* event_nearby(event, lat, lon, threshold=1.5), from geometry k on
RECURSIVE event_nearby(_, _, _, _)
event_nearby(event, k, lat, lon) ==
    IF k > Len(event.geometry) THEN FALSE
    ELSE LET g == event.geometry[k]
         IN  IF g.kind = "bad" THEN FALSE
             ELSE IF g.kind = "short" THEN event_nearby(event, k + 1, lat, lon)
             ELSE IF dist2(lat, lon, g) < 15000 * 15000 THEN TRUE
             ELSE event_nearby(event, k + 1, lat, lon)

\* len([e for e in eonet_events if self.event_nearby(e, lat, lon)])
events_nearby(events, lat, lon) ==
    Cardinality({e \in 1..Len(events) : event_nearby(events[e], 1, lat, lon)})

\* ------------------------------------------------------ external fetches

\* an element of the feed that is not a dict (a character of a string, a key
\* of a dict, a number): event.get raises at once in both loops over it
NotAnEvent == [cat_ok |-> FALSE, title |-> "", geometry |-> <<BadGeom>>]

\* a JSON value found under 'events' / 'files': its type, and what iterating
\* it yields
JAbsent == [type |-> "absent", items |-> <<>>]

JNull == [type |-> "null", items |-> <<>>]

JNumber == [type |-> "number", items |-> <<>>]

JString(n) == [type |-> "string", items |-> [k \in 1..n |-> NotAnEvent]]

JObject(n) == [type |-> "object", items |-> [k \in 1..n |-> NotAnEvent]]

JList(items) == [type |-> "list", items |-> items]

\* what requests.get gives: it raises (outcome "raised": timeout, connection
\* error) or answers with a status and a body.  content is "empty", "invalid"
\* (not JSON), "array" (JSON, top level not a dict) or "object"; field is the
\* value under the key the fetch reads
Response(outcome, status, content, field) ==
    [outcome |-> outcome, status |-> status, content |-> content, field |-> field]

\* len(v) raises TypeError for None, numbers and booleans
len_raises(v) == v.type \in {"null", "number"}

\* fetch_nasa_eonet_events: the value it returns, as the loops iterate it
fetch_nasa_eonet_events(r) ==
    IF r.outcome = "raised" THEN <<>>
    ELSE IF r.status # 200 THEN <<>>
    ELSE IF r.content # "object" THEN <<>>
    ELSE IF r.field.type = "absent" THEN <<>>
    ELSE IF len_raises(r.field) THEN <<>>
    ELSE r.field.items

\* fetch_nasa_ocean_color_info: len(files), or 0
fetch_nasa_ocean_color_info(r) ==
    IF r.outcome = "raised" THEN 0
    ELSE IF r.status # 200 THEN 0
    ELSE IF r.content = "empty" THEN 0
    ELSE IF r.content # "object" THEN 0
    ELSE IF r.field.type = "absent" THEN 0
    ELSE IF len_raises(r.field) THEN 0
    ELSE Len(r.field.items)

\* -------------------------------------------------- sample generation

\* `if i < 90` of range(150): the first 60% of the samples
HotspotSamples == (NSamples * 90) \div 150

\* habitat_quality from the value calculate_nasa_hsi returned
habitat_quality_of(hsi) ==
    IF hsi >= 75000 THEN "high"
    ELSE IF hsi >= 50000 THEN "medium"
    ELSE "low"

\* locals of one pass of the loop of generate_nasa_enhanced_data, index i
\* (0-based).  d holds the draws: hotspot, jlat, jlon (normal jitter), ulat,
\* ulon (uniform point), lognormal (1e-2), tnoise, ssh, pnoise, hnoise
ocean_locals(i, d, events, day) ==
    LET hot == i < HotspotSamples
        hotspot == shark_hotspots[d.hotspot]
        lat0 == IF hot THEN hotspot.lat + d.jlat ELSE d.ulat
        lon0 == IF hot THEN hotspot.lon + d.jlon ELSE d.ulon
        lat == clip(lat0, sydney_area.lat_min, sydney_area.lat_max)
        lon == clip(lon0, sydney_area.lon_min, sydney_area.lon_max)
        dist_from_center == dist(lat - sydney_area.center_lat, lon - sydney_area.center_lon)
        base_chlor == IF dist_from_center < 1000 THEN 25
                      ELSE IF dist_from_center < 3000 THEN 12
                      ELSE 4
        chlor == clip((base_chlor * seasonal_factor(day) * d.lognormal) \div 100, 500, 100000)
        temp_offset == -((150 * Min(dist_from_center, 4000)) \div 4000)
        sst == clip(seasonal_temp(day) + temp_offset + d.tnoise, 1500, 2600)
        plankton == Max(8000, Min(450000, (chlor * 7 * (100 + d.pnoise)) \div 100))
        env_impact == environmental_impact(events, 1, lat, lon, 0)
    IN  [ location_name |-> IF hot THEN hotspot.name ELSE "Sydney Waters",
          lat |-> lat,
          lon |-> lon,
          dist_from_center |-> dist_from_center,
          chlor |-> chlor,
          sst |-> sst,
          ssh_anomaly |-> d.ssh,
          plankton |-> plankton,
          env_impact |-> env_impact,
          hsi |-> calculate_nasa_hsi(sst, chlor, d.ssh, plankton, dist_from_center,
                                     env_impact, d.hnoise) ]

\* the dict appended to ocean_data (lines 149-165) from the locals
ocean_point(l, events) ==
    [ latitude |-> l.lat,
      longitude |-> l.lon,
      chlorophyll_a |-> l.chlor,
      sea_surface_temperature |-> l.sst,
      ssh_anomaly |-> l.ssh_anomaly,
      plankton_density |-> l.plankton,
      habitat_suitability_index |-> round1(l.hsi),
      predicted_prey_type |-> predict_prey_type(l.chlor, l.sst, l.plankton),
      habitat_quality |-> habitat_quality_of(l.hsi),
      location_name |-> l.location_name,
      environmental_events_nearby |-> events_nearby(events, l.lat, l.lon) ]

\* one row of the prediction table (create_satellite_predictions), i 0-based
prediction(i, p) ==
    [ prediction_id |-> <<"NASA", zero_padded(i + 1, 3)>>,
      latitude |-> p.latitude,
      longitude |-> p.longitude,
      confidence |-> p.habitat_suitability_index,
      water_temperature |-> p.sea_surface_temperature,
      chlorophyll_a |-> p.chlorophyll_a,
      ssh_anomaly |-> p.ssh_anomaly,
      plankton_density |-> p.plankton_density,
      predicted_prey_type |-> p.predicted_prey_type,
      habitat_quality |-> p.habitat_quality,
      location_name |-> p.location_name,
      data_source |-> "nasa_satellite",
      environmental_events_nearby |-> p.environmental_events_nearby ]

\* ------------------------------------------------------ tag simulation

\* one entry of tagged_sharks (lines 261-270); size is round(size, 1)
shark_tag(i, species, size) ==
    [ shark_id |-> <<"MANTIS", zero_padded(i + 1, 3)>>,
      species |-> shark_species[species].name,
      size_m |-> size,
      temp_pref |-> shark_species[species].temp_pref,
      aggression |-> shark_species[species].aggression ]

\* rows of the species-temperature filter (lines 278-281), by position
suitable_primary(df, shark) ==
    { i \in 1..Len(df) : /\ df[i].confidence > 4000
                         /\ Abs(df[i].water_temperature - shark.temp_pref) < 600 }

\* rows of the confidence-only filter (line 284)
suitable_relaxed(df) == { i \in 1..Len(df) : df[i].confidence > 3000 }

\* `suitable` without the fallback of lines 283-284
suitable_no_fallback(df, shark) == suitable_primary(df, shark)

\* `suitable` with a fallback that still looks at the shark: confidence
\* > 0.3 within 8 degrees of its preferred temperature
suitable_relaxed_near(df, shark) ==
    IF suitable_primary(df, shark) = {}
    THEN { i \in suitable_relaxed(df) :
             Abs(df[i].water_temperature - shark.temp_pref) < 800 }
    ELSE suitable_primary(df, shark)

\* `suitable` as it stands at line 286
suitable(df, shark) ==
    IF suitable_primary(df, shark) = {} THEN suitable_relaxed(df)
    ELSE suitable_primary(df, shark)

\* stomach_ph (lines 294-297); u is the uniform fraction, 1e-2
stomach_ph_of(feeding_intensity, u) ==
    IF feeding_intensity > 700 THEN 120 + u ELSE 280 + (140 * u) \div 100

\* bite_force (line 299), 1e-1 N; u is the uniform fraction of (0.8, 1.2)
bite_force_of(shark, feeding_intensity, u) ==
    ((((shark.size_m * 180 * shark.aggression) * feeding_intensity) \div 1000)
        * (80 + (40 * u) \div 100)) \div 10000

\* swimming_speed drawn from Uniform(0.9, 5.2) whatever the feeding intensity
swimming_speed_unconditional(feeding_intensity, u) == 90 + (430 * u) \div 100

\* swimming_speed (lines 301-304), 1e-2 m/s
swimming_speed_of(feeding_intensity, u) ==
    IF feeding_intensity > 600 THEN 280 + (240 * u) \div 100
    ELSE 90 + (140 * u) \div 100

\* temp_match (line 306), 1e-3
temp_match_of(water_temperature, temp_pref) ==
    1000 - Min(1000, Abs(water_temperature - temp_pref))

\* final_accuracy without the np.clip of line 310
final_accuracy_unclipped(confidence, temp_match) ==
    78000 + (confidence - 5000) * 3 + temp_match * 10

\* final_accuracy (lines 307-310), 1e-5
final_accuracy_of(confidence, temp_match) ==
    clip(78000 + (confidence - 5000) * 3 + temp_match * 10, 40000, 94000)

\* tag_confidence with >= for > in the bite-force ladder
tag_confidence_inclusive(feeding_intensity, stomach_ph, bite_force, swimming_speed) ==
    LET f == IF feeding_intensity > 800 THEN 250
             ELSE IF feeding_intensity > 600 THEN 200
             ELSE IF feeding_intensity > 400 THEN 150
             ELSE 0
        p == IF stomach_ph < 200 THEN 200
             ELSE IF stomach_ph < 280 THEN 150
             ELSE IF stomach_ph < 350 THEN 100
             ELSE 0
        b == IF bite_force >= 4000 THEN 150
             ELSE IF bite_force >= 2500 THEN 120
             ELSE IF bite_force >= 1500 THEN 80
             ELSE 0
        w == IF swimming_speed > 350 THEN 120
             ELSE IF swimming_speed > 250 THEN 80
             ELSE 0
    IN  Min(950, f + p + b + w)

\* tag_confidence (lines 320-336), 1e-3
tag_confidence_of(feeding_intensity, stomach_ph, bite_force, swimming_speed) ==
    LET f == IF feeding_intensity > 800 THEN 250
             ELSE IF feeding_intensity > 600 THEN 200
             ELSE IF feeding_intensity > 400 THEN 150
             ELSE 0
        p == IF stomach_ph < 200 THEN 200
             ELSE IF stomach_ph < 280 THEN 150
             ELSE IF stomach_ph < 350 THEN 100
             ELSE 0
        b == IF bite_force > 4000 THEN 150
             ELSE IF bite_force > 2500 THEN 120
             ELSE IF bite_force > 1500 THEN 80
             ELSE 0
        w == IF swimming_speed > 350 THEN 120
             ELSE IF swimming_speed > 250 THEN 80
             ELSE 0
    IN  Min(950, f + p + b + w)

\* the choice of line 317 without its filter
other_prey_unfiltered(predicted) == prey_options

\* [p for p in prey_options if p != predicted]
other_prey(predicted) == SelectSeq(prey_options, LAMBDA p : p # predicted)

\* actual_prey and accuracy_result (lines 312-318): u is np.random.random()
\* in 1e-5, wrong the position np.random.choice picks among the other three
prey_outcome(predicted, final_accuracy, u, wrong) ==
    IF u < final_accuracy
    THEN [actual_prey |-> predicted, accuracy_result |-> "correct"]
    ELSE [actual_prey |-> other_prey(predicted)[wrong], accuracy_result |-> "incorrect"]

\* satellite_confidence rounded like the fields around it
sampled_confidence_rounded(pred) == round1(pred.confidence) * 10

\* 'satellite_confidence': pred['confidence'] (line 357)
sampled_confidence(pred) == pred.confidence

\* the dict appended to tag_data (lines 289-361) for shark, event_num
\* (0-based) and the sampled row pred.  t holds the draws: jlat, jlon,
\* feeding_intensity, u_ph, u_bite, u_speed, u_acc, wrong, wnoise
tag_event(shark, num, pred, t) ==
    LET feeding_intensity == t.feeding_intensity
        stomach_ph == stomach_ph_of(feeding_intensity, t.u_ph)
        bite_force == bite_force_of(shark, feeding_intensity, t.u_bite)
        swimming_speed == swimming_speed_of(feeding_intensity, t.u_speed)
        temp_match == temp_match_of(pred.water_temperature, shark.temp_pref)
        final_accuracy == final_accuracy_of(pred.confidence, temp_match)
        outcome == prey_outcome(pred.predicted_prey_type, final_accuracy, t.u_acc, t.wrong)
    IN  [ tag_id |-> <<"TAG", shark.shark_id, zero_padded(num + 1, 2)>>,
          shark_species |-> shark.species,
          shark_size_m |-> shark.size_m,
          latitude |-> pred.latitude + t.jlat,
          longitude |-> pred.longitude + t.jlon,
          feeding_intensity |-> feeding_intensity,
          stomach_ph |-> stomach_ph,
          bite_force_newtons |-> bite_force,
          swimming_speed_ms |-> swimming_speed,
          water_temperature |-> pred.water_temperature + t.wnoise,
          actual_prey_type |-> outcome.actual_prey,
          predicted_prey_type |-> pred.predicted_prey_type,
          prediction_accuracy |-> outcome.accuracy_result,
          tag_confidence |-> tag_confidence_of(feeding_intensity, stomach_ph,
                                               bite_force, swimming_speed),
          satellite_confidence |-> sampled_confidence(pred),
          data_source |-> "mantis_tag" ]

\* ---------------------------------------------------- combined dataset

\* sat_display after the renames, marker_type and the 'N/A' back-fill
sat_display(r) ==
    [ event_id |-> r.prediction_id,
      latitude |-> r.latitude,
      longitude |-> r.longitude,
      display_confidence |-> r.confidence,
      prey_type |-> r.predicted_prey_type,
      habitat_quality |-> r.habitat_quality,
      location_name |-> r.location_name,
      data_source |-> r.data_source,
      marker_type |-> "prediction",
      shark_species |-> "N/A",
      shark_size_m |-> "N/A" ]

\* tag_display after the renames, marker_type and the 'N/A' back-fill
tag_display(r) ==
    [ event_id |-> r.tag_id,
      latitude |-> r.latitude,
      longitude |-> r.longitude,
      display_confidence |-> r.tag_confidence,
      prey_type |-> r.actual_prey_type,
      data_source |-> r.data_source,
      shark_species |-> r.shark_species,
      shark_size_m |-> r.shark_size_m,
      marker_type |-> "validation",
      habitat_quality |-> "N/A",
      location_name |-> "N/A" ]

\* pd.concat([sat_display, tag_display], ignore_index=True)
combined_of(satellite_df, tag_df) ==
    [i \in 1..Len(satellite_df) |-> sat_display(satellite_df[i])]
        \o [i \in 1..Len(tag_df) |-> tag_display(tag_df[i])]

\* tag_df[[...]] at line 372 raises KeyError: pd.DataFrame([]) has no columns
tag_columns_missing(tag_df) == Len(tag_df) = 0

\* ------------------------------------------------------------ analysis

\* sum of a column, from position k on
RECURSIVE SumFrom(_, _)
SumFrom(column, k) == IF k > Len(column) THEN 0 ELSE column[k] + SumFrom(column, k + 1)

\* the dict of analyze_performance with the fallback of line 436 forgotten
analysis_without_fallback(satellite_df, tag_df) ==
    LET correct == Cardinality({i \in 1..Len(tag_df) :
                                  tag_df[i].prediction_accuracy = "correct"})
    IN  [ total_predictions |-> Len(satellite_df),
          total_validations |-> Len(tag_df),
          prediction_accuracy |-> IF Len(tag_df) > 0
                                  THEN (correct * 10000) \div Len(tag_df)
                                  ELSE 0,
          avg_satellite_confidence |-> 7500,
          avg_tag_confidence |-> 820,
          species_diversity |-> 0 ]

\* the dict analyze_performance returns (lines 433-440); accuracy and
\* avg_satellite_confidence in 1e-4, avg_tag_confidence in 1e-3
analysis_of(satellite_df, tag_df) ==
    LET correct == Cardinality({i \in 1..Len(tag_df) :
                                  tag_df[i].prediction_accuracy = "correct"})
    IN  [ total_predictions |-> Len(satellite_df),
          total_validations |-> Len(tag_df),
          prediction_accuracy |-> IF Len(tag_df) > 0
                                  THEN (correct * 10000) \div Len(tag_df)
                                  ELSE 8500,
          avg_satellite_confidence |->
              IF Len(satellite_df) > 0
              THEN SumFrom([i \in 1..Len(satellite_df) |-> satellite_df[i].confidence], 1)
                       \div Len(satellite_df)
              ELSE 7500,
          avg_tag_confidence |->
              IF Len(tag_df) > 0
              THEN SumFrom([i \in 1..Len(tag_df) |-> tag_df[i].tag_confidence], 1) \div Len(tag_df)
              ELSE 820,
          species_diversity |-> IF Len(tag_df) > 0
                                THEN Cardinality({tag_df[i].shark_species :
                                                    i \in 1..Len(tag_df)})
                                ELSE 0 ]

\* ------------------------------------------------- files and the service

\* the three tables run_complete_pipeline persists
SatelliteCsv == "nasa_satellite_predictions.csv"

TagCsv == "nasa_mantis_tag_data.csv"

CombinedCsv == "nasa_combined_display_data.csv"

CsvNames == {SatelliteCsv, TagCsv, CombinedCsv}

\* a file of the working directory: absent, or the rows of text written
Missing == [written |-> FALSE, rows |-> <<>>]

\* DataFrame.to_csv(name, index=False): every cell is written as text
to_csv(table) ==
    [written |-> TRUE,
     rows |-> [i \in 1..Len(table) |->
                 [k \in DOMAIN table[i] |-> ToString(table[i][k])]]]

\* pd.read_csv raises: no such file (FileNotFoundError), or a file without
\* columns (EmptyDataError), which is what to_csv writes for pd.DataFrame([])
read_csv_raises(file) == ~file.written \/ Len(file.rows) = 0

\* the missing-value marker of pandas
NaN == "NaN"

\* pd.read_csv on a file it can parse: a cell holding N/A becomes NaN
read_csv(file) ==
    DataFrame([i \in 1..Len(file.rows) |->
                 [k \in DOMAIN file.rows[i] |->
                    IF file.rows[i][k] = ToString("N/A") THEN NaN
                    ELSE file.rows[i][k]]])

\* one try/except of load_generated_data (lines 29-35, 36-42, 43-49)
load_table(file) == IF read_csv_raises(file) THEN DataFrame(<<>>) ELSE read_csv(file)

\* df.astype(str).to_dict(orient='records'): NaN is printed as nan
astype_str(df) ==
    [i \in 1..Len(df.rows) |->
       [k \in DOMAIN df.rows[i] |-> IF df.rows[i][k] = NaN THEN "nan" ELSE df.rows[i][k]]]

\* calculate_system_stats (lines 51-99); accuracy in 1e-3
calculate_system_stats(sat, tag, combined) ==
    LET n == Len(tag.rows)
        correct == Cardinality({i \in 1..n :
                                  tag.rows[i].prediction_accuracy = ToString("correct")})
        accuracy == IF ~tag.none /\ n > 0 THEN round1((correct * 10000) \div n) ELSE 0
        source == IF ~combined.none /\ Len(combined.rows) > 0 THEN combined.rows
                  ELSE IF ~tag.none /\ n > 0 THEN tag.rows
                  ELSE <<>>
        clean_species == { i \in 1..Len(source) : source[i].shark_species # NaN }
        species == { source[i].shark_species : i \in clean_species }
    IN  { <<"prediction_accuracy", accuracy>>,
          <<"total_satellite_predictions", IF sat.none THEN 0 ELSE Len(sat.rows)>>,
          <<"total_tag_validations", IF tag.none THEN 0 ELSE n>>,
          <<"shark_species_tracked",
            { <<sp, Cardinality({i \in clean_species : source[i].shark_species = sp})>> :
                sp \in species }>> }

\* JSONResponse(content, status_code)
JSONResponse(content, status_code) == [status_code |-> status_code, content |-> content]

\* get_system_stats (lines 117-123)
get_system_stats(system_stats) ==
    IF system_stats # {} THEN JSONResponse(system_stats, 200)
    ELSE JSONResponse([message |-> "No stats available"], 503)

\* get_satellite_predictions (lines 125-131)
get_satellite_predictions(df) ==
    IF ~df.none /\ Len(df.rows) > 0 THEN JSONResponse(astype_str(df), 200)
    ELSE JSONResponse([message |-> "No satellite data"], 503)

\* get_tag_data answering whenever the table is bound
get_tag_data_when_bound(df) ==
    IF ~df.none THEN JSONResponse(astype_str(df), 200)
    ELSE JSONResponse([message |-> "No tag data"], 503)

\* get_tag_data (lines 133-138)
get_tag_data(df) ==
    IF ~df.none /\ Len(df.rows) > 0 THEN JSONResponse(astype_str(df), 200)
    ELSE JSONResponse([message |-> "No tag data"], 503)

\* get_combined_events (lines 140-152): nothing in the try block raises on
\* a table of strings, the 500 branch is not taken
get_combined_events(df) ==
    IF ~df.none /\ Len(df.rows) > 0 THEN JSONResponse(astype_str(df), 200)
    ELSE JSONResponse([message |-> "No combined data"], 503)

\* ------------------------------------------------------ inputs: feeds

NearStorm == Event("Severe Storms", <<Point(1512000, -338000)>>)

\* one storm report with eleven fixes inside 2.0 degrees
LongStorm == Event("Severe Storms", [k \in 1..11 |-> Point(1512000 + 100 * k, -338000)])

\* thirty sea-ice fixes inside 2.0 degrees
LongSea == Event("Sea and Lake Ice", [k \in 1..30 |-> Point(1512000, -338000 + 100 * k)])

\* a fix 1.82 degrees north of Sydney Harbour: within 2.0, beyond 1.5
EdgeSea == Event("Sea and Lake Ice", <<Point(1512000, -320500)>>)

BrokenStorm == Event("Severe Storms", <<ShortGeom, Point(1512000, -338000), BadGeom,
                                        Point(1512000, -338000)>>)

FarFire == Event("Wildfires", <<Point(1540000, -338000)>>)

\* feeds of the pipeline runs
Feeds == { <<>>, <<LongStorm>> }

\* feeds of the single-sample runs
SampleFeeds == Feeds \cup { <<EdgeSea, BrokenStorm>>, <<NearStorm, FarFire>>, <<LongSea>>, <<LongStorm, NearStorm, LongSea>> }

\* values found under 'events' / 'files' in an answered body
JFields == { JAbsent, JNull, JNumber, JString(2), JObject(1), JList(<<>>),
             JList(<<NearStorm>>), JList(<<NotAnEvent, NearStorm>>) }

\* outcomes of one requests.get
Responses ==
    { Response("raised", 0, "empty", JAbsent) }
    \cup { Response("answered", st, c, JAbsent) :
             st \in {200, 404, 503}, c \in {"empty", "invalid", "array"} }
    \cup { Response("answered", st, "object", f) : st \in {200, 404, 503}, f \in JFields }

\* outcomes of the EONET request in the pipeline runs
PipelineResponses ==
    { Response("answered", 200, "object", JList(f)) : f \in Feeds }
    \cup { Response("raised", 0, "empty", JAbsent) }

\* ------------------------------------------------------ inputs: draws

Draw(hotspot, jlat, jlon, ulat, ulon, lognormal, tnoise, ssh, pnoise, hnoise) ==
    [hotspot |-> hotspot, jlat |-> jlat, jlon |-> jlon, ulat |-> ulat, ulon |-> ulon,
     lognormal |-> lognormal, tnoise |-> tnoise, ssh |-> ssh, pnoise |-> pnoise,
     hnoise |-> hnoise]

\* draws of the single-sample runs: a coarse grid over every draw, and every
\* value of the final perturbation around one fixed sample
SampleDraws ==
    { Draw(h, jl, 0, u[1], u[2], ln, tn, sh, pn, hn) :
        h \in {1, 4}, jl \in {0, 20000}, u \in {<<-345000, 1505000>>, <<-338000, 1515000>>},
        ln \in {1, 100, 2000}, tn \in {-1000, 0, 1000}, sh \in {0, -400},
        pn \in {-200, 0}, hn \in {-2000, 2000} }
    \cup { Draw(1, 0, 0, -338000, 1515000, ln, 300, 150, 0, hn) :
             ln \in {250}, hn \in -2000..2000 }

\* day of the pipeline runs
PipelineDays == YDays

\* draws of the pipeline runs: a sample of high suitability, one whose
\* temperature is far from the warm-water species, one of low suitability
PipelineDraws ==
    { Draw(1, 0, 0, -338000, 1515000, 100, 300, 150, 0, 0),
      Draw(4, 0, 0, -338000, 1515000, 100, -300, 0, 0, 1500),
      Draw(1, 20000, 0, -345000, 1505000, 30, -300, 0, 0, 0) }

\* species and sizes drawn for the tagged sharks
PipelineSharks == { <<"BullShark", 33>>, <<"BronzeWhaler", 30>> }

TagDraw(jlat, jlon, feeding_intensity, u_ph, u_bite, u_speed, u_acc, wrong, wnoise) ==
    [jlat |-> jlat, jlon |-> jlon, feeding_intensity |-> feeding_intensity,
     u_ph |-> u_ph, u_bite |-> u_bite, u_speed |-> u_speed, u_acc |-> u_acc,
     wrong |-> wrong, wnoise |-> wnoise]

\* draws of one tag event: a strong feeding event labelled correct, a weak
\* and a moderate one labelled incorrect
TagDraws ==
    { TagDraw(8, -8, 850, 10, 90, 80, 0, 1, 30),
      TagDraw(-3, 5, 350, 60, 20, 10, 99999, 3, -20),
      TagDraw(0, 0, 650, 99, 50, 0, 94000, 1, 0) }

\* ------------------------------------------------ single-sample runs

InitSample ==
    /\ pc = "sample"
    /\ yday \in YDays
    /\ eonet_events \in SampleFeeds
    /\ ocean_data = <<>>
    /\ satellite_data = <<>>
    /\ tagged_sharks = <<>>
    /\ shark_idx = 0
    /\ n_events = 0
    /\ event_num = 0
    /\ tag_data = <<>>
    /\ pred_of = <<>>
    /\ combined_data = NoTable
    /\ analysis_results = NoTable
    /\ files = {}
    /\ data_point = NoProbe
    /\ probe = NoProbe
    /\ backend = NotStarted
    /\ drawn = <<>>

\* one pass of the loop body of generate_nasa_enhanced_data (lines 86-165)
SampleBody ==
    /\ pc = "sample"
    /\ data_point = NoProbe
    /\ \E i \in 0..(NSamples - 1), d \in SampleDraws :
         LET l == ocean_locals(i, d, eonet_events, yday)
         IN  data_point' = [fn |-> "sample", i |-> i, locals |-> l,
                            row |-> ocean_point(l, eonet_events)]
    /\ UNCHANGED <<pc, yday, eonet_events, ocean_data, satellite_data, tagged_sharks,
                   shark_idx, n_events, event_num, tag_data, pred_of, combined_data,
                   analysis_results, files, probe, backend, drawn>>

\* the same pass of the loop body in two runs that draw the same values
\* (same seed) with the feed stubbed empty: datetime.now() is read by each
\* run, yday in the first and now2 in the second
SampleRerun ==
    /\ pc = "sample"
    /\ data_point = NoProbe
    /\ eonet_events = <<>>
    /\ \E i \in 0..(NSamples - 1), d \in PipelineDraws, now2 \in YDays :
         data_point' = [fn |-> "rerun", i |-> i, days |-> <<yday, now2>>,
                        first |-> ocean_point(ocean_locals(i, d, <<>>, yday), <<>>),
                        second |-> ocean_point(ocean_locals(i, d, <<>>, now2), <<>>)]
    /\ UNCHANGED <<pc, yday, eonet_events, ocean_data, satellite_data, tagged_sharks,
                   shark_idx, n_events, event_num, tag_data, pred_of, combined_data,
                   analysis_results, files, probe, backend, drawn>>

NextSample ==
    \/ SampleBody
    \/ SampleRerun

SpecSample == InitSample /\ [][NextSample]_vars

\* ------------------------------------------------------ the pipeline

Init ==
    /\ pc = "fetch"
    /\ yday \in PipelineDays
    /\ eonet_events = <<>>
    /\ ocean_data = <<>>
    /\ satellite_data = <<>>
    /\ tagged_sharks = <<>>
    /\ shark_idx = 0
    /\ n_events = 0
    /\ event_num = 0
    /\ tag_data = <<>>
    /\ pred_of = <<>>
    /\ combined_data = NoTable
    /\ analysis_results = NoTable
    /\ files = {}
    /\ data_point = NoProbe
    /\ probe = NoProbe
    /\ backend = NotStarted
    /\ drawn = <<>>

\* generate_nasa_enhanced_data, lines 81-84: the feed is read once; the
\* count fetch_nasa_ocean_color_info returns is bound to ocean_files and
\* never read
FetchEvents ==
    /\ pc = "fetch"
    /\ \E r \in PipelineResponses : eonet_events' = fetch_nasa_eonet_events(r)
    /\ pc' = "generate"
    /\ UNCHANGED <<yday, ocean_data, satellite_data, tagged_sharks, shark_idx, n_events,
                   event_num, tag_data, pred_of, combined_data, analysis_results, files,
                   data_point, probe, backend, drawn>>

\* generate_nasa_enhanced_data, one pass of the loop at line 86
GenerateSample ==
    /\ pc = "generate"
    /\ Len(ocean_data) < NSamples
    /\ \E d \in PipelineDraws :
         ocean_data' = Append(ocean_data,
                              ocean_point(ocean_locals(Len(ocean_data), d, eonet_events, yday),
                                          eonet_events))
    /\ UNCHANGED <<pc, yday, eonet_events, satellite_data, tagged_sharks, shark_idx,
                   n_events, event_num, tag_data, pred_of, combined_data,
                   analysis_results, files, data_point, probe, backend, drawn>>

\* create_satellite_predictions, lines 223-245, and step 1's to_csv
CreateSatellitePredictions ==
    /\ pc = "generate"
    /\ Len(ocean_data) = NSamples
    /\ satellite_data' = [i \in 1..Len(ocean_data) |-> prediction(i - 1, ocean_data[i])]
    /\ files' = files \cup {"nasa_satellite_predictions.csv"}
    /\ pc' = "sharks"
    /\ UNCHANGED <<yday, eonet_events, ocean_data, tagged_sharks, shark_idx, n_events,
                   event_num, tag_data, pred_of, combined_data, analysis_results,
                   data_point, probe, backend, drawn>>

\* generate_mantis_tag_data, one pass of the loop at line 261
CreateShark ==
    /\ pc = "sharks"
    /\ Len(tagged_sharks) < NSharks
    /\ \E s \in PipelineSharks :
         tagged_sharks' = Append(tagged_sharks, shark_tag(Len(tagged_sharks), s[1], s[2]))
    /\ pc' = IF Len(tagged_sharks) + 1 = NSharks THEN "events" ELSE "sharks"
    /\ UNCHANGED <<yday, eonet_events, ocean_data, satellite_data, shark_idx, n_events,
                   event_num, tag_data, pred_of, combined_data, analysis_results, files,
                   data_point, probe, backend, drawn>>

\* generate_mantis_tag_data, lines 274-275: the next shark and its event count
NextShark ==
    /\ pc = "events"
    /\ event_num = n_events
    /\ shark_idx < NSharks
    /\ shark_idx' = shark_idx + 1
    /\ n_events' \in 1..MaxEvents
    /\ event_num' = 0
    /\ UNCHANGED <<pc, yday, eonet_events, ocean_data, satellite_data, tagged_sharks,
                   tag_data, pred_of, combined_data, analysis_results, files,
                   data_point, probe, backend, drawn>>

\* generate_mantis_tag_data, one pass of the loop at line 277
TagEvent ==
    /\ pc = "events"
    /\ shark_idx >= 1
    /\ event_num < n_events
    /\ LET shark == tagged_sharks[shark_idx]
           rows == suitable(satellite_data, shark)
       IN  IF rows = {}
           THEN UNCHANGED <<tag_data, pred_of>>
           ELSE \E i \in rows, t \in TagDraws :
                  /\ tag_data' = Append(tag_data,
                                        tag_event(shark, event_num, satellite_data[i], t))
                  /\ pred_of' = Append(pred_of, i)
    /\ event_num' = event_num + 1
    /\ UNCHANGED <<pc, yday, eonet_events, ocean_data, satellite_data, tagged_sharks,
                   shark_idx, n_events, combined_data, analysis_results, files,
                   data_point, probe, backend, drawn>>

\* run_complete_pipeline, lines 675-677: the loops are over, tag_data is saved
SaveTagData ==
    /\ pc = "events"
    /\ shark_idx = NSharks
    /\ event_num = n_events
    /\ files' = files \cup {"nasa_mantis_tag_data.csv"}
    /\ pc' = "combine"
    /\ UNCHANGED <<yday, eonet_events, ocean_data, satellite_data, tagged_sharks,
                   shark_idx, n_events, event_num, tag_data, pred_of, combined_data,
                   analysis_results, data_point, probe, backend, drawn>>

\* run_complete_pipeline, lines 681-683: create_combined_dataset and to_csv
CreateCombinedDataset ==
    /\ pc = "combine"
    /\ IF tag_columns_missing(tag_data)
       THEN /\ pc' = "crashed"
            /\ UNCHANGED <<combined_data, files>>
       ELSE /\ combined_data' = combined_of(satellite_data, tag_data)
            /\ files' = files \cup {"nasa_combined_display_data.csv"}
            /\ pc' = "analyze"
    /\ UNCHANGED <<yday, eonet_events, ocean_data, satellite_data, tagged_sharks,
                   shark_idx, n_events, event_num, tag_data, pred_of, analysis_results,
                   data_point, probe, backend, drawn>>

\* run_complete_pipeline, line 687
AnalyzePerformance ==
    /\ pc = "analyze"
    /\ analysis_results' = analysis_of(satellite_data, tag_data)
    /\ pc' = "report"
    /\ UNCHANGED <<yday, eonet_events, ocean_data, satellite_data, tagged_sharks,
                   shark_idx, n_events, event_num, tag_data, pred_of, combined_data,
                   files, data_point, probe, backend, drawn>>

\* run_complete_pipeline, line 695
CreateReport ==
    /\ pc = "report"
    /\ files' = files \cup {"nasa_mantis_report.txt"}
    /\ pc' = "judge"
    /\ UNCHANGED <<yday, eonet_events, ocean_data, satellite_data, tagged_sharks,
                   shark_idx, n_events, event_num, tag_data, pred_of, combined_data,
                   analysis_results, data_point, probe, backend, drawn>>

\* run_complete_pipeline, lines 699-714
CreateJudgeMaterials ==
    /\ pc = "judge"
    /\ files' = files \cup {"judge_quick_reference.txt"}
    /\ pc' = "done"
    /\ UNCHANGED <<yday, eonet_events, ocean_data, satellite_data, tagged_sharks,
                   shark_idx, n_events, event_num, tag_data, pred_of, combined_data,
                   analysis_results, data_point, probe, backend, drawn>>

Next ==
    \/ FetchEvents
    \/ GenerateSample
    \/ CreateSatellitePredictions
    \/ CreateShark
    \/ NextShark
    \/ TagEvent
    \/ SaveTagData
    \/ CreateCombinedDataset
    \/ AnalyzePerformance
    \/ CreateReport
    \/ CreateJudgeMaterials

Spec == Init /\ [][Next]_vars

\* ------------------------------------ repeated runs and the query service

\* the pipeline at the grain of the steps of run_complete_pipeline, run any
\* number of times in one working directory, next to the query service that
\* reads the files at startup.  pc is "idle" before the first run.

\* draws of these runs: every sample of a run takes the same draws
ServiceDraws == { Draw(1, 0, 0, -338000, 1515000, 100, 300, 150, 0, 0) }

ServiceTagDraws == { TagDraw(8, -8, 850, 10, 90, 80, 0, 1, 30) }

ReportNames == {"nasa_mantis_report.txt", "judge_quick_reference.txt"}

\* a text file that is not one of the tables
TextFile == [written |-> TRUE, rows |-> <<>>]

InitService ==
    /\ pc = "idle"
    /\ yday \in PipelineDays
    /\ eonet_events = <<>>
    /\ ocean_data = <<>>
    /\ satellite_data = <<>>
    /\ tagged_sharks = <<>>
    /\ shark_idx = 0
    /\ n_events = 0
    /\ event_num = 0
    /\ tag_data = <<>>
    /\ pred_of = <<>>
    /\ combined_data = <<>>
    /\ analysis_results = NoTable
    /\ files = [n \in CsvNames \cup ReportNames |-> Missing]
    /\ data_point = NoProbe
    /\ probe = NoProbe
    /\ backend = NotStarted
    /\ drawn = <<>>

\* run_complete_pipeline lines 667-671, at the start of a run: the locals of
\* an earlier run are gone, its files are still in the directory
PipelineStep1 ==
    /\ pc \in {"idle", "done", "crashed"}
    /\ \E r \in PipelineResponses, d \in ServiceDraws :
         LET feed == fetch_nasa_eonet_events(r)
         IN  /\ eonet_events' = feed
             /\ ocean_data' = [i \in 1..NSamples |->
                                 ocean_point(ocean_locals(i - 1, d, feed, yday), feed)]
    /\ satellite_data' = [i \in 1..NSamples |-> prediction(i - 1, ocean_data'[i])]
    /\ files' = [files EXCEPT ![SatelliteCsv] = to_csv(satellite_data')]
    /\ tagged_sharks' = <<>>
    /\ tag_data' = <<>>
    /\ pred_of' = <<>>
    /\ combined_data' = <<>>
    /\ analysis_results' = NoTable
    /\ pc' = "step2"
    /\ UNCHANGED <<yday, shark_idx, n_events, event_num, data_point, probe, backend, drawn>>

\* run_complete_pipeline lines 675-677: generate_mantis_tag_data as one
\* call, every shark of one species, one event each from the same row
PipelineStep2 ==
    /\ pc = "step2"
    /\ \E s \in PipelineSharks, t \in ServiceTagDraws :
         LET sharks == [k \in 1..NSharks |-> shark_tag(k - 1, s[1], s[2])]
             rows == suitable(satellite_data, sharks[1])
         IN  /\ tagged_sharks' = sharks
             /\ IF rows = {}
                THEN tag_data' = <<>> /\ pred_of' = <<>>
                ELSE \E i \in rows :
                       /\ tag_data' = [k \in 1..NSharks |->
                                         tag_event(sharks[k], 0, satellite_data[i], t)]
                       /\ pred_of' = [k \in 1..NSharks |-> i]
    /\ files' = [files EXCEPT ![TagCsv] = to_csv(tag_data')]
    /\ pc' = "step3"
    /\ UNCHANGED <<yday, eonet_events, ocean_data, satellite_data, shark_idx, n_events,
                   event_num, combined_data, analysis_results, data_point, probe, backend, drawn>>

\* run_complete_pipeline lines 681-683
PipelineStep3 ==
    /\ pc = "step3"
    /\ IF tag_columns_missing(tag_data)
       THEN /\ pc' = "crashed"
            /\ UNCHANGED <<combined_data, files>>
       ELSE /\ combined_data' = combined_of(satellite_data, tag_data)
            /\ files' = [files EXCEPT ![CombinedCsv] = to_csv(combined_data')]
            /\ pc' = "step4"
    /\ UNCHANGED <<yday, eonet_events, ocean_data, satellite_data, tagged_sharks,
                   shark_idx, n_events, event_num, tag_data, pred_of, analysis_results,
                   data_point, probe, backend, drawn>>

\* run_complete_pipeline lines 687-714: analysis, report, judge materials
PipelineSteps4to7 ==
    /\ pc = "step4"
    /\ analysis_results' = analysis_of(satellite_data, tag_data)
    /\ files' = [n \in DOMAIN files |-> IF n \in ReportNames THEN TextFile ELSE files[n]]
    /\ pc' = "done"
    /\ UNCHANGED <<yday, eonet_events, ocean_data, satellite_data, tagged_sharks,
                   shark_idx, n_events, event_num, tag_data, pred_of, combined_data,
                   data_point, probe, backend, drawn>>

\* startup_event (mantis_backend.py lines 166-171): load_generated_data and
\* calculate_system_stats; the server may be started again at any time
StartupEvent ==
    /\ LET sat == load_table(files[SatelliteCsv])
           tag == load_table(files[TagCsv])
           combined == load_table(files[CombinedCsv])
       IN  backend' = [satellite_data |-> sat, tag_data |-> tag, combined_data |-> combined,
                       system_stats |-> calculate_system_stats(sat, tag, combined)]
    /\ UNCHANGED <<pc, yday, eonet_events, ocean_data, satellite_data, tagged_sharks,
                   shark_idx, n_events, event_num, tag_data, pred_of, combined_data,
                   analysis_results, files, data_point, probe, drawn>>

\* GET /api/satellite-predictions
GetSatellitePredictions ==
    /\ probe' = [fn |-> "/api/satellite-predictions", table |-> backend.satellite_data,
                 response |-> get_satellite_predictions(backend.satellite_data)]
    /\ UNCHANGED <<pc, yday, eonet_events, ocean_data, satellite_data, tagged_sharks,
                   shark_idx, n_events, event_num, tag_data, pred_of, combined_data,
                   analysis_results, files, data_point, backend, drawn>>

\* GET /api/tag-data
GetTagData ==
    /\ probe' = [fn |-> "/api/tag-data", table |-> backend.tag_data,
                 response |-> get_tag_data(backend.tag_data)]
    /\ UNCHANGED <<pc, yday, eonet_events, ocean_data, satellite_data, tagged_sharks,
                   shark_idx, n_events, event_num, tag_data, pred_of, combined_data,
                   analysis_results, files, data_point, backend, drawn>>

\* GET /api/combined-events
GetCombinedEvents ==
    /\ probe' = [fn |-> "/api/combined-events", table |-> backend.combined_data,
                 response |-> get_combined_events(backend.combined_data)]
    /\ UNCHANGED <<pc, yday, eonet_events, ocean_data, satellite_data, tagged_sharks,
                   shark_idx, n_events, event_num, tag_data, pred_of, combined_data,
                   analysis_results, files, data_point, backend, drawn>>

\* GET /api/system-stats
GetSystemStats ==
    /\ probe' = [fn |-> "/api/system-stats", table |-> None,
                 response |-> get_system_stats(backend.system_stats)]
    /\ UNCHANGED <<pc, yday, eonet_events, ocean_data, satellite_data, tagged_sharks,
                   shark_idx, n_events, event_num, tag_data, pred_of, combined_data,
                   analysis_results, files, data_point, backend, drawn>>

NextService ==
    \/ PipelineStep1
    \/ PipelineStep2
    \/ PipelineStep3
    \/ PipelineSteps4to7
    \/ StartupEvent
    \/ GetSatellitePredictions
    \/ GetTagData
    \/ GetCombinedEvents
    \/ GetSystemStats

SpecService == InitService /\ [][NextService]_vars

\* ------------------------------------------- the tag simulation on its own

\* generate_mantis_tag_data(satellite_df) called once on a prediction table,
\* followed loop by loop to its return.  pc is "tag_sharks" in the loop at
\* line 261, "tag_events" in the loops at lines 274-277, "tag_returned"
\* after line 363.

\* prediction tables create_satellite_predictions can hand over, of which
\* at most two rows pass the relaxed filter
TagTables ==
    { t \in { [i \in 1..NSamples |->
                 prediction(i - 1, ocean_point(ocean_locals(i - 1, d[i], feed, day), feed))] :
              d \in [1..NSamples -> PipelineDraws], feed \in Feeds, day \in PipelineDays } :
        Cardinality(suitable_relaxed(t)) <= 2 }

InitTag ==
    /\ pc = "tag_sharks"
    /\ yday \in PipelineDays
    /\ eonet_events = <<>>
    /\ ocean_data = <<>>
    /\ satellite_data \in TagTables
    /\ tagged_sharks = <<>>
    /\ shark_idx = 0
    /\ n_events = 0
    /\ event_num = 0
    /\ tag_data = <<>>
    /\ pred_of = <<>>
    /\ combined_data = NoTable
    /\ analysis_results = NoTable
    /\ files = {}
    /\ data_point = NoProbe
    /\ probe = NoProbe
    /\ backend = NotStarted
    /\ drawn = <<>>

\* one pass of the loop at line 261
TagCreateShark ==
    /\ pc = "tag_sharks"
    /\ Len(tagged_sharks) < NTagSharks
    /\ \E s \in PipelineSharks :
         tagged_sharks' = Append(tagged_sharks, shark_tag(Len(tagged_sharks), s[1], s[2]))
    /\ pc' = IF Len(tagged_sharks) + 1 = NTagSharks THEN "tag_events" ELSE "tag_sharks"
    /\ UNCHANGED <<yday, eonet_events, ocean_data, satellite_data, shark_idx, n_events,
                   event_num, tag_data, pred_of, combined_data, analysis_results, files,
                   data_point, probe, backend, drawn>>

\* lines 274-275: the next shark of the list and its event count
TagNextShark ==
    /\ pc = "tag_events"
    /\ event_num = n_events
    /\ shark_idx < NTagSharks
    /\ shark_idx' = shark_idx + 1
    /\ n_events' \in MinTagEvents..MaxTagEvents
    /\ event_num' = 0
    /\ drawn' = Append(drawn, n_events')
    /\ UNCHANGED <<pc, yday, eonet_events, ocean_data, satellite_data, tagged_sharks,
                   tag_data, pred_of, combined_data, analysis_results, files,
                   data_point, probe, backend>>

\* the loop body with a `while len(suitable) == 0` around the filters: a
\* pass that finds no prediction is taken again
TagLoopBodyRetrying ==
    /\ pc = "tag_events"
    /\ shark_idx >= 1
    /\ event_num < n_events
    /\ LET shark == tagged_sharks[shark_idx]
           rows == suitable(satellite_data, shark)
       IN  IF rows = {}
           THEN UNCHANGED <<tag_data, pred_of, event_num>>
           ELSE \E i \in rows, t \in ServiceTagDraws :
                  /\ tag_data' = Append(tag_data,
                                        tag_event(shark, event_num, satellite_data[i], t))
                  /\ pred_of' = Append(pred_of, i)
                  /\ event_num' = event_num + 1
    /\ UNCHANGED <<pc, yday, eonet_events, ocean_data, satellite_data, tagged_sharks,
                   shark_idx, n_events, combined_data, analysis_results, files,
                   data_point, probe, backend, drawn>>

\* one pass of the loop at line 277 (lines 278-361): the filters, and when
\* a prediction is found the event built from it; range() moves on either way
TagLoopBody ==
    /\ pc = "tag_events"
    /\ shark_idx >= 1
    /\ event_num < n_events
    /\ LET shark == tagged_sharks[shark_idx]
           rows == suitable(satellite_data, shark)
       IN  IF rows = {}
           THEN UNCHANGED <<tag_data, pred_of>>
           ELSE \E i \in rows, t \in ServiceTagDraws :
                  /\ tag_data' = Append(tag_data,
                                        tag_event(shark, event_num, satellite_data[i], t))
                  /\ pred_of' = Append(pred_of, i)
    /\ event_num' = event_num + 1
    /\ UNCHANGED <<pc, yday, eonet_events, ocean_data, satellite_data, tagged_sharks,
                   shark_idx, n_events, combined_data, analysis_results, files,
                   data_point, probe, backend, drawn>>

\* line 363: both loops are over, the table is returned
TagReturn ==
    /\ pc = "tag_events"
    /\ shark_idx = NTagSharks
    /\ event_num = n_events
    /\ pc' = "tag_returned"
    /\ UNCHANGED <<yday, eonet_events, ocean_data, satellite_data, tagged_sharks,
                   shark_idx, n_events, event_num, tag_data, pred_of, combined_data,
                   analysis_results, files, data_point, probe, backend, drawn>>

NextTag ==
    \/ TagCreateShark
    \/ TagNextShark
    \/ TagLoopBody
    \/ TagReturn

\* the call is sequential code: whenever a step is possible, one is taken
SpecTag == InitTag /\ [][NextTag]_vars /\ WF_vars(NextTag)

\* ------------------------------------------------ runs of the helpers

InitPure ==
    /\ pc = "pure"
    /\ yday \in YDays
    /\ eonet_events = <<>>
    /\ ocean_data = <<>>
    /\ satellite_data = <<>>
    /\ tagged_sharks = <<>>
    /\ shark_idx = 0
    /\ n_events = 0
    /\ event_num = 0
    /\ tag_data = <<>>
    /\ pred_of = <<>>
    /\ combined_data = NoTable
    /\ analysis_results = NoTable
    /\ files = {}
    /\ data_point = NoProbe
    /\ probe = NoProbe
    /\ backend = NotStarted
    /\ drawn = <<>>

\* values on, next to and far from every threshold of the four ladders
FeedingValues == {0, 400, 401, 600, 601, 700, 800, 801, 1000}

PhValues == {120, 199, 200, 279, 280, 349, 350, 420}

BiteValues == {0, 1500, 1501, 2500, 2501, 4000, 4001, 11000}

SpeedValues == {90, 250, 251, 350, 351, 520}

\* lines 320-336 on one combination of the four signals
ProbeTagConfidence ==
    /\ pc = "pure"
    /\ probe = NoProbe
    /\ \E f \in FeedingValues, p \in PhValues, b \in BiteValues, w \in SpeedValues :
         probe' = [fn |-> "tag_confidence", feeding_intensity |-> f, stomach_ph |-> p,
                   bite_force |-> b, swimming_speed |-> w,
                   out |-> tag_confidence_of(f, p, b, w)]
    /\ UNCHANGED <<pc, yday, eonet_events, ocean_data, satellite_data, tagged_sharks,
                   shark_idx, n_events, event_num, tag_data, pred_of, combined_data,
                   analysis_results, files, data_point, backend, drawn>>

\* lines 306-310 on one prediction and one species
ProbeAccuracy ==
    /\ pc = "pure"
    /\ probe = NoProbe
    /\ \E c \in {0, 1000, 3001, 4000, 5000, 7500, 9800, 10000},
          wt \in {500, 1500, 1800, 2000, 2400, 2600, 4000},
          sp \in species_list :
         LET temp_match == temp_match_of(wt, shark_species[sp].temp_pref)
         IN  probe' = [fn |-> "final_accuracy", confidence |-> c, water_temperature |-> wt,
                       temp_pref |-> shark_species[sp].temp_pref,
                       temp_match |-> temp_match,
                       out |-> final_accuracy_of(c, temp_match)]
    /\ UNCHANGED <<pc, yday, eonet_events, ocean_data, satellite_data, tagged_sharks,
                   shark_idx, n_events, event_num, tag_data, pred_of, combined_data,
                   analysis_results, files, data_point, backend, drawn>>

\* predict_prey_type on one triple
ProbePreyType ==
    /\ pc = "pure"
    /\ probe = NoProbe
    /\ \E c \in {0, 500, 9999, 10000, 25000, 25001, 30000, 30001, 100000},
          t \in {1500, 1899, 1900, 1901, 2600},
          k \in {8000, 250000, 250001, 450000} :
         probe' = [fn |-> "predict_prey_type", chlor |-> c, temp |-> t, plankton |-> k,
                   out |-> predict_prey_type(c, t, k)]
    /\ UNCHANGED <<pc, yday, eonet_events, ocean_data, satellite_data, tagged_sharks,
                   shark_idx, n_events, event_num, tag_data, pred_of, combined_data,
                   analysis_results, files, data_point, backend, drawn>>

\* fetch_nasa_eonet_events on one outcome of the request
ProbeFetchEvents ==
    /\ pc = "pure"
    /\ probe = NoProbe
    /\ \E r \in Responses :
         probe' = [fn |-> "fetch_nasa_eonet_events", response |-> r,
                   out |-> fetch_nasa_eonet_events(r)]
    /\ UNCHANGED <<pc, yday, eonet_events, ocean_data, satellite_data, tagged_sharks,
                   shark_idx, n_events, event_num, tag_data, pred_of, combined_data,
                   analysis_results, files, data_point, backend, drawn>>

\* fetch_nasa_ocean_color_info on one outcome of the request
ProbeFetchOceanColor ==
    /\ pc = "pure"
    /\ probe = NoProbe
    /\ \E r \in Responses :
         probe' = [fn |-> "fetch_nasa_ocean_color_info", response |-> r,
                   out |-> fetch_nasa_ocean_color_info(r)]
    /\ UNCHANGED <<pc, yday, eonet_events, ocean_data, satellite_data, tagged_sharks,
                   shark_idx, n_events, event_num, tag_data, pred_of, combined_data,
                   analysis_results, files, data_point, backend, drawn>>

\* rows of the tables analyze_performance is called with: the columns it reads
AnalysisTagRows ==
    { [prediction_accuracy |-> a, shark_species |-> sp, tag_confidence |-> c] :
        a \in {"correct", "incorrect"}, sp \in {"Bull Shark", "Hammerhead"}, c \in {80, 720} }

AnalysisTagTables ==
    UNION { [1..n -> AnalysisTagRows] : n \in 0..MaxTagRows }

AnalysisSatelliteTables ==
    { <<>>, <<[confidence |-> 1000]>>, <<[confidence |-> 6410], [confidence |-> 9800]>> }

\* analyze_performance on one pair of tables
ProbeAnalyzePerformance ==
    /\ pc = "pure"
    /\ probe = NoProbe
    /\ \E sat \in AnalysisSatelliteTables, tag \in AnalysisTagTables :
         probe' = [fn |-> "analyze_performance", satellite_df |-> sat, tag_df |-> tag,
                   out |-> analysis_of(sat, tag)]
    /\ UNCHANGED <<pc, yday, eonet_events, ocean_data, satellite_data, tagged_sharks,
                   shark_idx, n_events, event_num, tag_data, pred_of, combined_data,
                   analysis_results, files, data_point, backend, drawn>>

\* uniform fractions of the three conditional draws, 1e-2
SignalFractions == {0, 50, 99}

\* a large and a small shark
SignalSharks == { <<"GreatWhite", 52>>, <<"BronzeWhaler", 25>> }

\* lines 292-304 and 320-336 on one event: the signals drawn from the
\* feeding intensity, and the confidence summed from them
ProbeTagSignals ==
    /\ pc = "pure"
    /\ probe = NoProbe
    /\ \E f \in FeedingValues, u_ph \in SignalFractions, u_bite \in SignalFractions,
          u_speed \in SignalFractions, s \in SignalSharks :
         LET shark == shark_tag(0, s[1], s[2])
             stomach_ph == stomach_ph_of(f, u_ph)
             bite_force == bite_force_of(shark, f, u_bite)
             swimming_speed == swimming_speed_of(f, u_speed)
         IN  probe' = [fn |-> "tag_signals", feeding_intensity |-> f,
                       stomach_ph |-> stomach_ph, bite_force |-> bite_force,
                       swimming_speed |-> swimming_speed,
                       out |-> tag_confidence_of(f, stomach_ph, bite_force, swimming_speed)]
    /\ UNCHANGED <<pc, yday, eonet_events, ocean_data, satellite_data, tagged_sharks,
                   shark_idx, n_events, event_num, tag_data, pred_of, combined_data,
                   analysis_results, files, data_point, backend, drawn>>

NextPure ==
    \/ ProbeTagConfidence
    \/ ProbeAccuracy
    \/ ProbePreyType
    \/ ProbeFetchEvents
    \/ ProbeFetchOceanColor
    \/ ProbeAnalyzePerformance
    \/ ProbeTagSignals

SpecPure == InitPure /\ [][NextPure]_vars

\* ============================================================== claims

\* rows of tag_data emitted for the shark at position k of tagged_sharks
RowsOfShark(k) == { j \in 1..Len(tag_data) : tag_data[j].tag_id[2] = tagged_sharks[k].shark_id }

\* the shark that emitted row j of tag_data
SharkOfRow(j) ==
    tagged_sharks[CHOOSE k \in 1..Len(tagged_sharks) :
                    tagged_sharks[k].shark_id = tag_data[j].tag_id[2]]

\* C1: no condition is fatal: whatever prediction table was generated,
\* also one in which no confidence exceeds 0.3 so that the tag table stays
\* empty, run_complete_pipeline does not stop on an exception.
C1_NeverFatal == pc # "crashed"

\* C2: once create_combined_dataset has been called, for every pair of
\* prediction table and tag table, the combined table exists, has as many
\* rows as the two tables together, the prediction rows marked "prediction"
\* and the tag rows marked "validation".
C2_CombinedCount ==
    pc \in {"crashed", "analyze", "report", "judge", "done"} =>
        /\ combined_data # NoTable
        /\ Len(combined_data) = Len(satellite_data) + Len(tag_data)
        /\ \A i \in 1..Len(combined_data) :
             combined_data[i].marker_type =
                 IF i <= Len(satellite_data) THEN "prediction" ELSE "validation"

\* C3: every emitted tag event was built from a prediction with confidence
\* > 0.4 and |water_temperature - temp_pref| < 6 whenever the table holds
\* such a prediction for the shark, and otherwise from one with confidence
\* > 0.3; a pass of the event loop emits nothing only when no prediction
\* has confidence > 0.3.
C3_FilterRelaxation ==
    /\ \A j \in 1..Len(tag_data) :
         LET pref == SharkOfRow(j).temp_pref
             primary == { i \in 1..Len(satellite_data) :
                            /\ satellite_data[i].confidence > 4000
                            /\ satellite_data[i].water_temperature - pref < 600
                            /\ pref - satellite_data[i].water_temperature < 600 }
         IN  IF primary # {} THEN pred_of[j] \in primary
             ELSE satellite_data[pred_of[j]].confidence > 3000
    /\ (pc = "events" /\ shark_idx >= 1) =>
         Cardinality(RowsOfShark(shark_idx)) =
             IF \E i \in 1..Len(satellite_data) : satellite_data[i].confidence > 3000
             THEN event_num ELSE 0

\* an event was emitted through the relaxed filter: its shark has no
\* prediction that passes the species-temperature filter
C3_Witness ==
    \E j \in 1..Len(tag_data) :
        /\ suitable_primary(satellite_data, SharkOfRow(j)) = {}
        /\ satellite_data[pred_of[j]].confidence > 3000

\* C4: habitat_quality is a function of the stored confidence: 'high' from
\* 0.75, 'medium' from 0.5 below 0.75, 'low' below 0.5.
C4_QualityOfStoredScore ==
    data_point.fn = "sample" =>
        data_point.row.habitat_quality =
            IF data_point.row.habitat_suitability_index >= 7500 THEN "high"
            ELSE IF data_point.row.habitat_suitability_index >= 5000 THEN "medium"
            ELSE "low"

\* C5: every generated sample has chlorophyll_a in [0.05, 10],
\* sea_surface_temperature in [15, 26], plankton_density in [800, 45000]
\* and a habitat score in [0.1, 0.98], whatever the draws and the events.
C5_SampleRanges ==
    data_point.fn = "sample" =>
        /\ data_point.row.chlorophyll_a \in 500..100000
        /\ data_point.row.sea_surface_temperature \in 1500..2600
        /\ data_point.row.plankton_density \in 8000..450000
        /\ data_point.locals.hsi \in 10000..98000
        /\ data_point.row.habitat_suitability_index \in 1000..9800

\* a sample whose events drive environmental_impact below -1
C5_Witness ==
    /\ data_point.fn = "sample"
    /\ data_point.locals.env_impact < -100
    /\ data_point.row.habitat_suitability_index = 1000

\* C6: tag_confidence = min(0.95, F + P + B + S) with the four ladders of
\* the specification, and lies in [0, 0.95].
C6_TagConfidenceLadders ==
    probe.fn = "tag_confidence" =>
        LET F == CASE probe.feeding_intensity > 800 -> 250
                   [] probe.feeding_intensity > 600 /\ probe.feeding_intensity <= 800 -> 200
                   [] probe.feeding_intensity > 400 /\ probe.feeding_intensity <= 600 -> 150
                   [] OTHER -> 0
            P == CASE probe.stomach_ph < 200 -> 200
                   [] probe.stomach_ph >= 200 /\ probe.stomach_ph < 280 -> 150
                   [] probe.stomach_ph >= 280 /\ probe.stomach_ph < 350 -> 100
                   [] OTHER -> 0
            B == CASE probe.bite_force > 4000 -> 150
                   [] probe.bite_force > 2500 /\ probe.bite_force <= 4000 -> 120
                   [] probe.bite_force > 1500 /\ probe.bite_force <= 2500 -> 80
                   [] OTHER -> 0
            S == CASE probe.swimming_speed > 350 -> 120
                   [] probe.swimming_speed > 250 /\ probe.swimming_speed <= 350 -> 80
                   [] OTHER -> 0
        IN  /\ probe.out = (IF F + P + B + S > 950 THEN 950 ELSE F + P + B + S)
            /\ probe.out \in 0..950

\* the four signals each on a threshold of its ladder
C6_Witness ==
    /\ probe.fn = "tag_confidence"
    /\ probe.feeding_intensity = 800
    /\ probe.stomach_ph = 200
    /\ probe.bite_force = 4000
    /\ probe.swimming_speed = 350
    /\ probe.out = 550

\* C7: accuracy_probability = clamp(0.78 + (confidence - 0.5) * 0.3
\* + temp_match * 0.1, 0.4, 0.94) lies in [0.4, 0.94], and temp_match =
\* 1 - min(1, |sst - temp_pref| / 10) lies in [0, 1].
C7_AccuracyRange ==
    probe.fn = "final_accuracy" =>
        LET d == IF probe.water_temperature >= probe.temp_pref
                 THEN probe.water_temperature - probe.temp_pref
                 ELSE probe.temp_pref - probe.water_temperature
            raw == 78000 + (probe.confidence - 5000) * 3 + probe.temp_match * 10
        IN  /\ probe.temp_match = 1000 - (IF d > 1000 THEN 1000 ELSE d)
            /\ probe.temp_match \in 0..1000
            /\ probe.out = (IF raw < 40000 THEN 40000 ELSE IF raw > 94000 THEN 94000 ELSE raw)
            /\ probe.out \in 40000..94000

\* a confident prediction at the preferred temperature: the clamp binds
C7_Witness ==
    /\ probe.fn = "final_accuracy"
    /\ probe.confidence = 10000
    /\ probe.temp_match = 1000
    /\ probe.out = 94000

\* C8: the accuracy label of every tag event is 'correct' or 'incorrect';
\* it is 'correct' exactly when actual_prey_type is the predicted prey of
\* the prediction the event was sampled from; an 'incorrect' event carries
\* one of the other three categories; predicted_prey_type is the
\* prediction's.
C8_AccuracyLabel ==
    \A j \in 1..Len(tag_data) :
        LET predicted == satellite_data[pred_of[j]].predicted_prey_type
            row == tag_data[j]
        IN  /\ row.prediction_accuracy \in {"correct", "incorrect"}
            /\ row.predicted_prey_type = predicted
            /\ (row.prediction_accuracy = "correct") <=> (row.actual_prey_type = predicted)
            /\ row.actual_prey_type \in
                   {"small_fish", "plankton_bloom", "squid_cephalopods", "mixed_diet"}

\* an event labelled incorrect
C8_Witness ==
    \E j \in 1..Len(tag_data) :
        /\ tag_data[j].prediction_accuracy = "incorrect"
        /\ tag_data[j].actual_prey_type # tag_data[j].predicted_prey_type

\* C9: satellite_confidence of every tag event is the confidence of the
\* prediction it was sampled from, a row of the prediction table, and
\* generate_mantis_tag_data leaves the prediction table as it was.
C9_ConfidenceMirrors ==
    /\ [](\A j \in 1..Len(tag_data) :
            /\ pred_of[j] \in 1..Len(satellite_data)
            /\ tag_data[j].satellite_confidence = satellite_data[pred_of[j]].confidence)
    /\ [][(pc \in {"sharks", "events"}) => (satellite_data' = satellite_data)]_vars

\* an event sampled from a prediction whose confidence has four decimals
C9_Witness ==
    \E j \in 1..Len(tag_data) :
        /\ tag_data[j].satellite_confidence % 10 # 0
        /\ tag_data[j].satellite_confidence = satellite_data[pred_of[j]].confidence

\* C10: predict_prey_type yields plankton_bloom iff plankton > 25000 and
\* chlorophyll > 2.5; otherwise small_fish iff 1.0 <= chlorophyll <= 3.0
\* and sst > 19; otherwise squid_cephalopods iff chlorophyll < 1.0 and
\* sst < 19; otherwise mixed_diet.
C10_PreyPrecedence ==
    probe.fn = "predict_prey_type" =>
        LET bloom == probe.plankton > 250000 /\ probe.chlor > 25000
            fish == probe.chlor >= 10000 /\ probe.chlor <= 30000 /\ probe.temp > 1900
            squid == probe.chlor < 10000 /\ probe.temp < 1900
        IN  /\ (probe.out = "plankton_bloom") <=> bloom
            /\ (probe.out = "small_fish") <=> (~bloom /\ fish)
            /\ (probe.out = "squid_cephalopods") <=> (~bloom /\ ~fish /\ squid)
            /\ (probe.out = "mixed_diet") <=> (~bloom /\ ~fish /\ ~squid)

\* a triple that satisfies the first two rules: the first one wins
C10_Witness ==
    /\ probe.fn = "predict_prey_type"
    /\ probe.plankton > 250000
    /\ probe.chlor > 25000
    /\ probe.chlor <= 30000
    /\ probe.temp > 1900
    /\ probe.out = "plankton_bloom"

\* C11: a failed fetch degrades to the empty result: when the request
\* raises, answers with a status other than success, or answers with a
\* body that is not JSON, is JSON of the wrong shape, or holds under
\* 'events' / 'files' a null or a value that is not a list,
\* fetch_nasa_eonet_events yields the empty list and
\* fetch_nasa_ocean_color_info yields 0.
C11_FetchDegrades ==
    LET failed == \/ probe.response.outcome = "raised"
                  \/ probe.response.status # 200
                  \/ probe.response.content \in {"invalid", "array"}
                  \/ /\ probe.response.content = "object"
                     /\ probe.response.field.type \in {"null", "number", "string", "object"}
    IN  /\ (probe.fn = "fetch_nasa_eonet_events" /\ failed) => probe.out = <<>>
        /\ (probe.fn = "fetch_nasa_ocean_color_info" /\ failed) => probe.out = 0

\* C12: two runs that draw the same random values with an empty event
\* feed generate the same sample, field for field, whenever they are run:
\* no field depends on the clock.
C12_Determinism ==
    data_point.fn = "rerun" => data_point.first = data_point.second

\* C13: every point of the output tables lies in the bounding region,
\* latitude in [-34.5, -33.0] and longitude in [150.5, 152.0]: every
\* prediction row, and every tag event's fix.
C13_PointsInRegion ==
    /\ \A i \in 1..Len(satellite_data) :
         /\ satellite_data[i].latitude \in sydney_area.lat_min..sydney_area.lat_max
         /\ satellite_data[i].longitude \in sydney_area.lon_min..sydney_area.lon_max
    /\ \A j \in 1..Len(tag_data) :
         /\ tag_data[j].latitude \in sydney_area.lat_min..sydney_area.lat_max
         /\ tag_data[j].longitude \in sydney_area.lon_min..sydney_area.lon_max

\* the table endpoints of the query service
TableEndpoints == {"/api/satellite-predictions", "/api/tag-data", "/api/combined-events"}

C15_RunsIndependent ==
    pc \in {"done", "crashed"} =>
        /\ files[SatelliteCsv] = to_csv(satellite_data)
        /\ files[TagCsv] = to_csv(tag_data)
        /\ files[CombinedCsv] = to_csv(combined_of(satellite_data, tag_data))

\* events of the feed with a geometry coordinate within 2.0 degrees of the
\* sample of data_point
EventsWithin2(sel(_)) ==
    { e \in 1..Len(eonet_events) :
        /\ sel(eonet_events[e])
        /\ \E k \in 1..Len(eonet_events[e].geometry) :
             /\ eonet_events[e].geometry[k].kind = "point"
             /\ dist2(data_point.locals.lat, data_point.locals.lon,
                      eonet_events[e].geometry[k]) < 20000 * 20000 }

\* an event one of whose geometry entries cannot be read
MalformedGeometry(event) ==
    \E k \in 1..Len(event.geometry) : event.geometry[k].kind = "bad"

\* C16: environmental_impact of a sample is -0.1 times the number of storm
\* events nearby plus 0.05 times the number of sea events nearby, every
\* event counted once however many of its coordinates are within 2.0
\* degrees, and an event with malformed geometry counted not at all.
C16_ImpactPerEvent ==
    data_point.fn = "sample" =>
        data_point.locals.env_impact =
            5 * Cardinality(EventsWithin2(LAMBDA ev : /\ ~MalformedGeometry(ev)
                                                      /\ ~HasStorm(ev.title)
                                                      /\ HasSea(ev.title)))
            - 10 * Cardinality(EventsWithin2(LAMBDA ev : /\ ~MalformedGeometry(ev)
                                                         /\ HasStorm(ev.title)))

\* C17: environmental_events_nearby of a sample is the number of events
\* with a geometry coordinate within 2.0 degrees, the threshold of
\* environmental_impact: an event that changes the impact is counted.
C17_NearbyCountThreshold ==
    data_point.fn = "sample" =>
        data_point.row.environmental_events_nearby =
            Cardinality(EventsWithin2(LAMBDA ev : TRUE))

\* C18: the prediction table has exactly as many rows as samples were
\* generated (150, here NSamples), in generation order: row i is built
\* from sample i and has the id NASA_ followed by i in three digits, the
\* ids are pairwise distinct, the first 60% of the rows carry the name of
\* one of the five hotspots and the other rows the generic label.
C18_PredictionRows ==
    pc \in {"sharks", "events", "combine", "analyze", "report", "judge", "done", "crashed"} =>
        /\ Len(satellite_data) = NSamples
        /\ Len(ocean_data) = NSamples
        /\ \A i \in 1..NSamples :
             /\ satellite_data[i].prediction_id[1] = "NASA"
             /\ Len(satellite_data[i].prediction_id[2]) = 3
             /\ 100 * satellite_data[i].prediction_id[2][1]
                  + 10 * satellite_data[i].prediction_id[2][2]
                  + satellite_data[i].prediction_id[2][3] = i
             /\ satellite_data[i].latitude = ocean_data[i].latitude
             /\ satellite_data[i].longitude = ocean_data[i].longitude
             /\ satellite_data[i].confidence = ocean_data[i].habitat_suitability_index
             /\ satellite_data[i].location_name = ocean_data[i].location_name
             /\ IF i <= (NSamples * 60) \div 100
                THEN satellite_data[i].location_name \in
                         {"Sydney Harbour", "Bondi Beach", "Manly Beach",
                          "Cronulla Beach", "Coogee Beach"}
                ELSE satellite_data[i].location_name = "Sydney Waters"
        /\ \A i, j \in 1..NSamples :
             satellite_data[i].prediction_id = satellite_data[j].prediction_id => i = j

\* a finished table whose first row is at Cronulla Beach and whose last
\* row is a generic one
C18_Witness ==
    /\ pc = "sharks"
    /\ Len(satellite_data) = NSamples
    /\ satellite_data[1].location_name = "Cronulla Beach"
    /\ satellite_data[NSamples].location_name = "Sydney Waters"
    /\ satellite_data[NSamples].prediction_id = <<"NASA", zero_padded(NSamples, 3)>>

\* C19: create_combined_dataset, for every prediction table and tag table
\* it is called with, yields the prediction rows in table order followed by
\* the tag rows in table order; a prediction row carries event_id =
\* prediction_id, display_confidence = confidence, prey_type =
\* predicted_prey_type and 'N/A' for shark_species and shark_size_m; a tag
\* row carries event_id = tag_id, display_confidence = tag_confidence,
\* prey_type = actual_prey_type and 'N/A' for habitat_quality and
\* location_name.
C19_CombinedMapping ==
    pc \in {"crashed", "analyze", "report", "judge", "done"} =>
        /\ pc # "crashed"
        /\ Len(combined_data) = Len(satellite_data) + Len(tag_data)
        /\ \A i \in 1..Len(satellite_data) :
             /\ combined_data[i].event_id = satellite_data[i].prediction_id
             /\ combined_data[i].display_confidence = satellite_data[i].confidence
             /\ combined_data[i].prey_type = satellite_data[i].predicted_prey_type
             /\ combined_data[i].habitat_quality = satellite_data[i].habitat_quality
             /\ combined_data[i].location_name = satellite_data[i].location_name
             /\ combined_data[i].shark_species = "N/A"
             /\ combined_data[i].shark_size_m = "N/A"
        /\ \A j \in 1..Len(tag_data) :
             LET row == combined_data[Len(satellite_data) + j]
             IN  /\ row.event_id = tag_data[j].tag_id
                 /\ row.display_confidence = tag_data[j].tag_confidence
                 /\ row.prey_type = tag_data[j].actual_prey_type
                 /\ row.shark_species = tag_data[j].shark_species
                 /\ row.shark_size_m = tag_data[j].shark_size_m
                 /\ row.habitat_quality = "N/A"
                 /\ row.location_name = "N/A"

\* C20: analyze_performance returns prediction_accuracy = correct / total,
\* a value in [0, 1], when the tag table has rows; for an empty tag table
\* it returns 0.85; total_predictions and total_validations are the row
\* counts of the two tables.
C20_AccuracyGuarded ==
    probe.fn = "analyze_performance" =>
        LET n == Len(probe.tag_df)
            correct == Cardinality({i \in 1..n :
                                      probe.tag_df[i].prediction_accuracy = "correct"})
        IN  /\ probe.out.total_predictions = Len(probe.satellite_df)
            /\ probe.out.total_validations = n
            /\ n > 0 => /\ probe.out.prediction_accuracy = (correct * 10000) \div n
                        /\ probe.out.prediction_accuracy \in 0..10000
            /\ n = 0 => probe.out.prediction_accuracy = 8500

\* the call with an empty tag table and a prediction table with rows
C20_Witness ==
    /\ probe.fn = "analyze_performance"
    /\ Len(probe.tag_df) = 0
    /\ Len(probe.satellite_df) > 0
    /\ probe.out.prediction_accuracy = 8500
    /\ probe.out.total_validations = 0

\* C21: the tag simulation always terminates.  When it returns it has
\* created exactly n_sharks sharks and drawn for each an event count in the
\* range of randint; while it runs, the event loop of a shark is left only
\* when its counter has reached the drawn count, every pass advances the
\* counter by one whether or not it emitted an event (a skipped pass is not
\* taken again) and appends at most one row; so no shark emits more than
\* its drawn count and the table holds at most n_sharks times the largest
\* count.
C21_TagSimulationTerminates ==
    /\ <>(pc = "tag_returned")
    /\ [](pc = "tag_returned" =>
            /\ Len(tagged_sharks) = NTagSharks
            /\ Len(drawn) = NTagSharks
            /\ \A k \in 1..NTagSharks :
                 /\ drawn[k] \in MinTagEvents..MaxTagEvents
                 /\ Cardinality(RowsOfShark(k)) <= drawn[k]
            /\ Len(tag_data) <= NTagSharks * MaxTagEvents)
    /\ [][pc = "tag_events" =>
            \/ /\ event_num < n_events
               /\ event_num' = event_num + 1
               /\ Len(tag_data') \in {Len(tag_data), Len(tag_data) + 1}
               /\ UNCHANGED <<pc, shark_idx, n_events, drawn>>
            \/ /\ event_num = n_events
               /\ shark_idx' = shark_idx + 1
               /\ event_num' = 0
               /\ drawn' = Append(drawn, n_events')
               /\ UNCHANGED <<pc, tag_data>>
            \/ /\ event_num = n_events
               /\ shark_idx = NTagSharks
               /\ pc' = "tag_returned"
               /\ UNCHANGED <<shark_idx, n_events, event_num, tag_data, drawn>>]_vars

\* the call has returned; one shark drew the smallest count and one the
\* largest, and every pass of the latter was skipped
C21_Witness ==
    /\ pc = "tag_returned"
    /\ \E k \in 1..NTagSharks : drawn[k] = MinTagEvents
    /\ \E k \in 1..NTagSharks : drawn[k] = MaxTagEvents /\ RowsOfShark(k) = {}

\* C22: event skipping is all-or-nothing across a call: at every moment
\* either every shark has emitted one event per pass of its loop, so that a
\* returned table holds for every shark exactly its drawn count and between
\* n_sharks times the smallest and n_sharks times the largest count of rows,
\* or no shark has emitted anything and the table is empty.
C22_AllOrNothing ==
    pc \in {"tag_events", "tag_returned"} =>
        \/ Len(tag_data) = 0
        \/ /\ \A k \in 1..Len(drawn) :
                Cardinality(RowsOfShark(k)) = IF k = shark_idx THEN event_num ELSE drawn[k]
           /\ pc = "tag_returned" =>
                Len(tag_data) \in NTagSharks * MinTagEvents..NTagSharks * MaxTagEvents

\* a returned table in which one shark's events came through the relaxed
\* filter and another's through the species-temperature filter, each shark
\* with its drawn count, the counts different
C22_Witness ==
    /\ pc = "tag_returned"
    /\ \E j, k \in 1..NTagSharks :
         /\ suitable_primary(satellite_data, tagged_sharks[j]) = {}
         /\ suitable_primary(satellite_data, tagged_sharks[k]) # {}
         /\ Cardinality(RowsOfShark(j)) = drawn[j]
         /\ Cardinality(RowsOfShark(k)) = drawn[k]
         /\ drawn[j] # drawn[k]

\* C23: the cap of 0.95 never binds: for every tag event the sum of the
\* four ladders is the tag_confidence itself and is at most 0.25 + 0.2 +
\* 0.15 + 0.12 = 0.72; and an event whose feeding_intensity is at most 0.6
\* gets nothing from the swimming-speed ladder and at most 0.1 from the
\* stomach_ph ladder.
C23_CapNeverBinds ==
    probe.fn = "tag_signals" =>
        LET F == CASE probe.feeding_intensity > 800 -> 250
                   [] probe.feeding_intensity > 600 /\ probe.feeding_intensity <= 800 -> 200
                   [] probe.feeding_intensity > 400 /\ probe.feeding_intensity <= 600 -> 150
                   [] OTHER -> 0
            P == CASE probe.stomach_ph < 200 -> 200
                   [] probe.stomach_ph >= 200 /\ probe.stomach_ph < 280 -> 150
                   [] probe.stomach_ph >= 280 /\ probe.stomach_ph < 350 -> 100
                   [] OTHER -> 0
            B == CASE probe.bite_force > 4000 -> 150
                   [] probe.bite_force > 2500 /\ probe.bite_force <= 4000 -> 120
                   [] probe.bite_force > 1500 /\ probe.bite_force <= 2500 -> 80
                   [] OTHER -> 0
            S == CASE probe.swimming_speed > 350 -> 120
                   [] probe.swimming_speed > 250 /\ probe.swimming_speed <= 350 -> 80
                   [] OTHER -> 0
        IN  /\ probe.out = F + P + B + S
            /\ probe.out <= 720
            /\ probe.feeding_intensity <= 600 => S = 0 /\ P <= 100

\* an event on the top rung of every ladder: the sum is 0.72
C23_Witness ==
    /\ probe.fn = "tag_signals"
    /\ probe.feeding_intensity > 800
    /\ probe.stomach_ph < 200
    /\ probe.bite_force > 4000
    /\ probe.swimming_speed > 350
    /\ probe.out = 720

====
